---------------------------- MODULE Spec2Model ----------------------------
(***************************************************************************)
(* A model of the Shopify insights scraper (app/services/scraper.py).      *)
(*                                                                         *)
(* Text is a sequence of lexical tokens (each token a TLA+ string), so     *)
(* that splitting, lower-casing, pattern search and URL joining are        *)
(* computed, not assumed.  The tokens are cut so that every literal of a   *)
(* pattern of the scraper is one token.  Optional[...] values are records  *)
(* [some, v].  One run of get_brand_context is a state machine whose steps *)
(* are its suspension points: every fetch, and the closing of the session. *)
(* The request handler (app/api/v1/endpoints/insights.py) answers once the *)
(* run has ended; the URL normalizer of the constructor is computed on     *)
(* token sequences as urlparse computes it on strings.                     *)
(***************************************************************************)
EXTENDS Integers, Sequences, FiniteSets, TLC

VARIABLES
    pc,             \* position of the run inside get_brand_context
    session,        \* self.session: "none" or "open"
    soup,           \* self.soup: the cached homepage DOM, Optional
    is_shopify,     \* self.is_shopify
    ep,             \* _fetch_products: index of the endpoint requested next
    ptype,          \* _fetch_policies: index of the policy type in progress
    path,           \* index of the candidate path requested next
    products, hero_products, policies, faqs, socials, contact, about, links,
    pending,        \* what the try block ended with, not yet surfaced
    result,         \* what the caller of get_brand_context has received
    brand_context,  \* the returned document, Optional
    opened, closed, \* history: sessions created / closed
    nFetch,         \* history: number of GET requests issued
    homeFetches,    \* history: number of GET requests for base_url
    lastUrl,        \* history: the URL of the latest request
    seen200,        \* history: an earlier candidate of the loop in progress
                    \* answered 200
    seenContent,    \* history: ... answered 200 with the content looked for
    contactFrom,    \* history: where contact_soup came from
    allMissed,      \* history: every request after the homepage's was
                    \* answered, and with a status other than 200
    served,         \* the answer the store gives to every FAQ request of
                    \* the run, when the scenario fixes it; Optional
    ran,            \* history: the extractors that have run to their end
    contactSrc,     \* history: the page of the first contact candidate
                    \* that answered 200, Optional
    http_response,  \* what POST /insights has answered, Optional
    website_url,    \* request.website_url
    normalized      \* self.base_url as the constructor computes it, Optional

vars == <<pc, session, soup, is_shopify, ep, ptype, path, products,
          hero_products, policies, faqs, socials, contact, about, links,
          pending, result, brand_context, opened, closed, nFetch,
          homeFetches, lastUrl, seen200, seenContent, contactFrom, allMissed,
          served, ran, contactSrc, http_response, website_url, normalized>>

----------------------------------------------------------------------------
(* Optional values and text helpers                                        *)

None(d) == [some |-> FALSE, v |-> d]

Some(x) == [some |-> TRUE, v |-> x]

NoStr == None(<< >>)

RECURSIVE Concat(_)
Concat(ss) == IF ss = << >> THEN << >> ELSE Head(ss) \o Concat(Tail(ss))

Min(S) == CHOOSE i \in S : \A j \in S : i <= j

\* str.split(sep): the pieces of s between occurrences of the token sep
RECURSIVE SplitAcc(_, _, _)
SplitAcc(s, sep, cur) ==
    IF s = << >> THEN << cur >>
    ELSE IF Head(s) = sep THEN << cur >> \o SplitAcc(Tail(s), sep, << >>)
    ELSE SplitAcc(Tail(s), sep, Append(cur, Head(s)))

Split(s, sep) == SplitAcc(s, sep, << >>)

\* str.lower() on one token
Lower(t) ==
    CASE t = "Brand"      -> "brand"
      [] t = "Instagram"  -> "instagram"
      [] t = "Contact"    -> "contact"
      [] t = "Blog"       -> "blog"
      [] OTHER            -> t

LowerStr(s) == [i \in DOMAIN s |-> Lower(s[i])]

\* pattern search: the literal token sequence lit occurs in s at index i
OccursAt(s, lit, i) ==
    /\ i >= 1
    /\ i + Len(lit) - 1 <= Len(s)
    /\ \A k \in 1..Len(lit) : s[i + k - 1] = lit[k]

Occurs(s, lit) == \E i \in 1..Len(s) : OccursAt(s, lit, i)

\* the pieces of s from index i on
From(s, i) == SubSeq(s, i, Len(s))

\* the longest prefix of s whose tokens are all in the class C
RECURSIVE Run(_, _)
Run(s, C) ==
    IF s = << >> \/ Head(s) \notin C THEN << >>
    ELSE << Head(s) >> \o Run(Tail(s), C)

----------------------------------------------------------------------------
(* URLs                                                                    *)

Schemes == {"https://", "http://", "mailto:", "tel:"}

\* self.base_url of the run
BaseUrl == << "https://", "shop.com" >>

\* scheme and netloc of an absolute URL
Origin(url) == SubSeq(url, 1, 2)

\* urllib.parse.urljoin(base, ref)
UrlJoin(base, ref) ==
    IF ref = << >> THEN base
    ELSE IF Head(ref) \in Schemes THEN ref
    ELSE IF Head(ref) = "/" THEN Origin(base) \o ref
    ELSE LET bpath  == From(base, 3)
             slashes == {i \in 1..Len(bpath) : bpath[i] = "/"}
             dir    == IF slashes = {} THEN << "/" >>
                       ELSE SubSeq(bpath, 1,
                                   CHOOSE i \in slashes :
                                       \A j \in slashes : j <= i)
         IN  Origin(base) \o dir \o ref

\* the prefixes line 23 looks for
UrlPrefixes == {"http://", "https://"}

\* the index of the first token of s that is in the class C, Len(s) + 1 if
\* there is none
FirstOf(s, C) == Min({i \in 1..Len(s) : s[i] \in C} \cup {Len(s) + 1})

\* str.rstrip('/')
RECURSIVE RStripSlash(_)
RStripSlash(s) ==
    IF s # << >> /\ s[Len(s)] = "/"
    THEN RStripSlash(SubSeq(s, 1, Len(s) - 1))
    ELSE s

\* urllib.parse.urlparse(url) of a url that starts with http:// or
\* https://: the netloc ends before the first of / ? #, the fragment and
\* then the query are cut off, and the parameters of the last path segment
\* (from its first ;) are cut off the path
UrlParse(url) ==
    LET rest    == Tail(url)
        n       == FirstOf(rest, {"/", "?", "#"})
        after   == From(rest, n)
        nofrag  == SubSeq(after, 1, FirstOf(after, {"#"}) - 1)
        noquery == SubSeq(nofrag, 1, FirstOf(nofrag, {"?"}) - 1)
        slashes == {i \in 1..Len(noquery) : noquery[i] = "/"}
        last    == IF slashes = {} THEN 0
                   ELSE CHOOSE i \in slashes : \A j \in slashes : j <= i
        semis   == {i \in 1..Len(noquery) : i > last /\ noquery[i] = ";"}
    IN  [scheme |-> Head(url),
         netloc |-> SubSeq(rest, 1, n - 1),
         path   |-> IF semis = {} THEN noquery
                    ELSE SubSeq(noquery, 1, Min(semis) - 1)]

\* _normalize_url, lines 21-30
NormalizeUrl(url) ==
    LET schemed == IF url # << >> /\ Head(url) \in UrlPrefixes THEN url
                   ELSE << "https://" >> \o url
        parsed  == UrlParse(schemed)
    IN  << parsed.scheme >> \o parsed.netloc \o RStripSlash(parsed.path)

----------------------------------------------------------------------------
(* The Page Fetcher: _fetch_url                                            *)

\* What the transport does with one GET: it answers, it raises an
\* aiohttp.ClientError (DNS, connection refused, TLS), or it raises an
\* exception that is no ClientError (asyncio.TimeoutError of the total
\* timeout, UnicodeDecodeError of response.text()).
Transports == {"response", "ClientError", "TimeoutError", "UnicodeDecodeError"}

Statuses == {200, 404, 503}

\* _fetch_url: the pair (content, status), or the exception that leaves it
FetchUrl(t, status, content) ==
    CASE t = "response" ->
            [raised |-> "none", status |-> status, content |-> content]
      [] t = "ClientError" ->
            [raised |-> "WebsiteNotFoundException", status |-> 0,
             content |-> content]
      [] OTHER ->
            [raised |-> t, status |-> 0, content |-> content]

Answered200(r) == r.raised = "none" /\ r.status = 200

Missed(r) == r.raised = "none" /\ r.status # 200

\* the outcomes of one GET whose answer, if there is one, has a body of the
\* set bodies: a response of any status, or one of the exceptions, which
\* delivers no body
Answers(bodies) ==
    {FetchUrl("response", st, b) : st \in Statuses, b \in bodies}
        \cup {FetchUrl(t, 0, << >>) : t \in Transports \ {"response"}}

----------------------------------------------------------------------------
(* The Catalog Extractor: _fetch_products                                  *)

product_endpoints ==
    << << "/", "products.json", "?", "limit=250" >>,
       << "/", "collections", "/", "all", "/", "products.json", "?",
          "limit=250" >> >>

\* one record of the feed's "products" array
ProductData(id, title, handle, tags, variants, images) ==
    [id |-> id, title |-> title, handle |-> handle, tags |-> tags,
     body_html |-> << "desc" >>, variants |-> variants, images |-> images]

\* _get_product_price: the first variant's price, if any
GetProductPrice(pd) ==
    IF pd.variants # << >> /\ pd.variants[1].price.some
    THEN pd.variants[1].price
    ELSE NoStr

\* _get_product_image: the first image's src, if any
GetProductImage(pd) ==
    IF pd.images # << >> /\ pd.images[1].src.some
    THEN pd.images[1].src
    ELSE NoStr

\* the tags argument of Product(...): a list is kept, a string is split on
\* ", ", a missing key gives ''.split(', ')
ProductTags(pd) ==
    CASE pd.tags.kind = "list"    -> pd.tags.v
      [] pd.tags.kind = "str"     -> Split(pd.tags.v, ", ")
      [] OTHER                    -> << << >> >>

\* Product(...) raises for this record: title null fails validation of
\* `title: str`, tags null fails on None.split
ConversionRaises(pd) == ~pd.title.some \/ pd.tags.kind = "null"

\* Product(...) of lines 95-105
MakeProduct(pd) ==
    [id          |-> pd.id,
     title       |-> pd.title.v,
     handle      |-> IF pd.handle.some THEN pd.handle.v ELSE << >>,
     description |-> pd.body_html,
     price       |-> GetProductPrice(pd),
     image       |-> GetProductImage(pd),
     url         |-> UrlJoin(BaseUrl, << "/", "products", "/" >>
                        \o (IF pd.handle.some THEN pd.handle.v
                            ELSE << "None" >>)),
     tags        |-> ProductTags(pd),
     variants    |-> pd.variants]

\* the for loop of lines 94-106 over data['products'], appending to acc until
\* a record raises
RECURSIVE ConvertAll(_, _)
ConvertAll(pds, acc) ==
    IF pds = << >> THEN [raised |-> FALSE, products |-> acc]
    ELSE IF ConversionRaises(Head(pds))
         THEN [raised |-> TRUE, products |-> acc]
         ELSE ConvertAll(Tail(pds), Append(acc, MakeProduct(Head(pds))))

\* One iteration of the endpoint loop, lines 87-112, on the answer r of the
\* fetch and the list built so far: the list after it, and whether the loop
\* breaks.  A feed is [json, has_products, products].
ProductsIteration(r, acc) ==
    IF r.raised # "none" THEN [products |-> acc, break |-> FALSE]
    ELSE IF r.status # 200 THEN [products |-> acc, break |-> FALSE]
    ELSE IF ~r.content.json THEN [products |-> acc, break |-> FALSE]
    ELSE IF ~r.content.has_products THEN [products |-> acc, break |-> FALSE]
    ELSE LET c == ConvertAll(r.content.products, acc)
         IN  [products |-> c.products, break |-> ~c.raised]

----------------------------------------------------------------------------
(* The Hero Product Extractor: _fetch_hero_products                        *)

HeroLimit == 10

\* href.split('/')[-1].split('?')[0]
HandleOf(href) ==
    LET last == Split(href, "/")[Len(Split(href, "/"))]
    IN  Split(last, "?")[1]

\* soup.find_all('a', href=re.compile(r'/products/'))
ProductLinks(dom) ==
    SelectSeq(dom.anchors,
              LAMBDA a : a.href.some
                         /\ Occurs(a.href.v, << "/", "products", "/" >>))

\* next((p for p in all_products if p.handle == handle), None)
MatchingProduct(all_products, handle) ==
    LET I == {i \in 1..Len(all_products) : all_products[i].handle = handle}
    IN  IF I = {} THEN << >> ELSE << all_products[Min(I)] >>

\* the loop of lines 144-155
RECURSIVE HeroLoop(_, _, _, _)
HeroLoop(plinks, all_products, product_handles, hero) ==
    IF plinks = << >> THEN hero
    ELSE LET handle == HandleOf(Head(plinks).href.v)
         IN  IF handle # << >> /\ handle \notin product_handles
             THEN HeroLoop(Tail(plinks), all_products,
                           product_handles \cup {handle},
                           hero \o MatchingProduct(all_products, handle))
             ELSE HeroLoop(Tail(plinks), all_products, product_handles, hero)

\* hero_products[:10]
Truncate(s, n) == SubSeq(s, 1, IF Len(s) < n THEN Len(s) ELSE n)

FetchHeroProductsUncapped(dom, all_products) ==
    HeroLoop(ProductLinks(dom), all_products, {}, << >>)

FetchHeroProductsOf(dom, all_products) ==
    Truncate(HeroLoop(ProductLinks(dom), all_products, {}, << >>), HeroLimit)

----------------------------------------------------------------------------
(* Text-block pages: _fetch_policies, _fetch_about, _fetch_faqs            *)

\* str.strip() on one text node
Strip(t) ==
    CASE t = " "    -> ""
      [] t = " M "  -> "M"
      [] t = " Q? " -> "Q?"
      [] t = " +1 555 010 9999 " -> "+1 555 010 9999"
      [] t = " 2024-01-01 " -> "2024-01-01"
      [] OTHER      -> t

\* element.get_text(separator=sep, strip=True): the stripped, non-empty text
\* nodes of the element, joined by sep
RECURSIVE JoinText(_, _)
JoinText(nodes, sep) ==
    IF nodes = << >> THEN << >>
    ELSE IF Strip(Head(nodes)) = "" THEN JoinText(Tail(nodes), sep)
    ELSE LET rest == JoinText(Tail(nodes), sep)
         IN  IF rest = << >> THEN << Strip(Head(nodes)) >>
             ELSE << Strip(Head(nodes)) >> \o sep \o rest

policy_types == << "privacy", "return_policy", "refund", "terms" >>

\* the list of line 384 with its first path listed twice
about_paths_repeated ==
    << << "/", "about" >>,
       << "/", "about" >>,
       << "/", "pages", "/", "about" >>,
       << "/", "pages", "/", "about-us" >>,
       << "/", "pages", "/", "our-story" >>,
       << "/", "pages", "/", "story" >> >>

policy_paths ==
    [privacy |->
        << << "/", "policies", "/", "privacy-policy" >>,
           << "/", "pages", "/", "privacy-policy" >>,
           << "/", "pages", "/", "privacy" >> >>,
     return_policy |->
        << << "/", "policies", "/", "refund-policy" >>,
           << "/", "pages", "/", "refund-policy" >>,
           << "/", "pages", "/", "returns" >>,
           << "/", "pages", "/", "return-policy" >> >>,
     refund |->
        << << "/", "policies", "/", "refund-policy" >>,
           << "/", "pages", "/", "refund-policy" >>,
           << "/", "pages", "/", "refunds" >> >>,
     terms |->
        << << "/", "policies", "/", "terms-of-service" >>,
           << "/", "pages", "/", "terms-of-service" >>,
           << "/", "pages", "/", "terms" >>,
           << "/", "pages", "/", "terms-conditions" >> >>]

about_paths ==
    << << "/", "about" >>,
       << "/", "pages", "/", "about" >>,
       << "/", "pages", "/", "about-us" >>,
       << "/", "pages", "/", "our-story" >>,
       << "/", "pages", "/", "story" >> >>

faq_paths ==
    << << "/", "faq" >>,
       << "/", "pages", "/", "faq" >>,
       << "/", "pages", "/", "faqs" >>,
       << "/", "pages", "/", "frequently-asked-questions" >> >>

\* soup.find('main'), else the first div whose class matches
\* (content|main|page).*; a page is [main, div, accordion, questions], main
\* and div the Optional text nodes of those elements
MainContent(page) == IF page.main.some THEN page.main ELSE page.div

\* One iteration of a text-block loop (lines 173-195, 387-406) on the answer
\* r of the fetch: whether the field is assigned (and the loop breaks), and
\* the text assigned.
TextIterationAnyStatus(r) ==
    IF r.raised # "none" THEN [break |-> FALSE, text |-> << >>]
    ELSE IF ~MainContent(r.content).some THEN [break |-> FALSE, text |-> << >>]
    ELSE [break |-> TRUE,
          text |-> JoinText(MainContent(r.content).v, << "\n" >>)]

TextIterationNoBreak(r) ==
    [break |-> FALSE,
     text |-> IF Answered200(r)
              THEN JoinText(MainContent(r.content).v, << "\n" >>)
              ELSE << >>]

TextIteration(r) ==
    IF r.raised # "none" THEN [break |-> FALSE, text |-> << >>]
    ELSE IF r.status # 200 THEN [break |-> FALSE, text |-> << >>]
    ELSE IF ~MainContent(r.content).some THEN [break |-> FALSE, text |-> << >>]
    ELSE [break |-> TRUE,
          text |-> JoinText(MainContent(r.content).v, << "\n" >>)]

\* Method 1, lines 215-227: the accordion items, each [question, answer] the
\* Optional text nodes of its question and answer sub-elements
RECURSIVE AccordionFaqs(_)
AccordionFaqs(items) ==
    IF items = << >> THEN << >>
    ELSE LET item == Head(items)
             q == JoinText(item.question.v, << >>)
             a == JoinText(item.answer.v, << >>)
         IN  IF item.question.some /\ item.answer.some
                /\ q # << >> /\ a # << >>
             THEN << [question |-> q, answer |-> a] >>
                      \o AccordionFaqs(Tail(items))
             ELSE AccordionFaqs(Tail(items))

\* Method 2, lines 231-241: the heading-like question nodes, each [text,
\* next], next the Optional text nodes of q.find_next(['p', 'div'])
RECURSIVE FlatFaqs(_)
FlatFaqs(questions) ==
    IF questions = << >> THEN << >>
    ELSE LET qn == Head(questions)
             q == JoinText(qn.text, << >>)
             a == JoinText(qn.next.v, << >>)
         IN  IF qn.next.some /\ q # << >> /\ a # << >>
             THEN << [question |-> q, answer |-> a] >>
                      \o FlatFaqs(Tail(questions))
             ELSE FlatFaqs(Tail(questions))

\* lines 211-241 on a parsed FAQ page, appending to the list so far
FaqsOfPageMerged(page, acc) ==
    acc \o AccordionFaqs(page.accordion) \o FlatFaqs(page.questions)

FaqsOfPage(page, acc) ==
    LET after1 == acc \o AccordionFaqs(page.accordion)
    IN  IF after1 = << >> THEN after1 \o FlatFaqs(page.questions)
        ELSE after1

\* One iteration of the loop of _fetch_faqs, lines 207-248
FaqsIteration(r, acc) ==
    IF r.raised # "none" THEN [faqs |-> acc, break |-> FALSE]
    ELSE IF r.status # 200 THEN [faqs |-> acc, break |-> FALSE]
    ELSE LET f == FaqsOfPage(r.content, acc)
         IN  [faqs |-> f, break |-> f # << >>]

----------------------------------------------------------------------------
(* Socials: _fetch_social_handles, _extract_social_username                *)

\* tokens of \w+, of [\w.]+ and of [\w-]+
WordToks == {"brand", "shop", "user", "channel", "company", "in", "a", "b",
             "instagram", "facebook", "tiktok", "twitter", "x", "youtube",
             "linkedin", "pinterest", "contact", "blog", "us", "pages"}

DotToks == WordToks \cup {".com", "www."}

DashToks == WordToks \cup {"-"}

social_platforms ==
    << "instagram", "facebook", "tiktok", "twitter", "youtube", "linkedin",
       "pinterest" >>

\* re.search(social_patterns[platform], href)
SocialMatches(platform, href) ==
    IF platform = "twitter"
    THEN Occurs(href, << "twitter", ".com" >>) \/ Occurs(href, << "x", ".com" >>)
    ELSE Occurs(href, << platform >>)

\* the user-name group of patterns[platform] for a match that starts at
\* index i of url, << >> when the pattern does not match there
GroupAt(platform, url, i) ==
    LET host(h) == OccursAt(url, << h, ".com", "/" >>, i)
        two(a, b, C) ==
            IF /\ i + 4 <= Len(url)
               /\ url[i + 3] \in {a, b}
               /\ url[i + 4] = "/"
            THEN Run(From(url, i + 5), C)
            ELSE << >>
    IN  CASE platform = "instagram" /\ host("instagram") ->
                Run(From(url, i + 3), DotToks)
          [] platform = "facebook" /\ host("facebook") ->
                Run(From(url, i + 3), DotToks)
          [] platform = "tiktok" /\ host("tiktok") ->
                IF /\ i + 3 <= Len(url)
                   /\ url[i + 3] = "@"
                   /\ Run(From(url, i + 4), DotToks) # << >>
                THEN Run(From(url, i + 4), DotToks)
                ELSE Run(From(url, i + 3), DotToks)
          [] platform = "twitter" /\ (host("twitter") \/ host("x")) ->
                Run(From(url, i + 3), WordToks)
          [] platform = "youtube" /\ host("youtube") ->
                two("user", "channel", WordToks)
          [] platform = "linkedin" /\ host("linkedin") ->
                two("company", "in", DashToks)
          [] platform = "pinterest" /\ host("pinterest") ->
                Run(From(url, i + 3), WordToks)
          [] OTHER -> << >>

\* _extract_social_username: Optional; twitter and youtube return group 2,
\* the others '@' + group 1 (for linkedin group 1 is "company" or "in")
ExtractSocialUsername(platform, url) ==
    LET I == {i \in 1..Len(url) : GroupAt(platform, url, i) # << >>}
    IN  IF I = {} THEN NoStr
        ELSE LET i == Min(I)
                 g == GroupAt(platform, url, i)
             IN  CASE platform = "twitter"  -> Some(<< "@" >> \o g)
                   [] platform = "youtube"  -> Some(g)
                   [] platform = "linkedin" -> Some(<< "@", url[i + 3] >>)
                   [] OTHER                 -> Some(<< "@" >> \o g)

\* the value set for a platform the link matches: username or href, href
\* the lower-cased attribute
SocialValueRaw(platform, rawhref) ==
    LET u == ExtractSocialUsername(platform, LowerStr(rawhref))
    IN  IF u.some THEN u.v ELSE rawhref

SocialValue(platform, rawhref) ==
    LET href == LowerStr(rawhref)
        u    == ExtractSocialUsername(platform, href)
    IN  IF u.some THEN u.v ELSE href

\* soup.find_all('a', href=True)
LinksWithHref(dom) == SelectSeq(dom.anchors, LAMBDA a : a.href.some)

NoSocials == [p \in {social_platforms[i] : i \in 1..Len(social_platforms)}
                |-> NoStr]

RECURSIVE SocialsLoop(_, _)
SocialsLoop(as, soc) ==
    IF as = << >> THEN soc
    ELSE SocialsLoop(Tail(as),
            [p \in DOMAIN NoSocials |->
                IF SocialMatches(p, LowerStr(Head(as).href.v))
                THEN Some(SocialValue(p, Head(as).href.v))
                ELSE soc[p]])

FetchSocialHandlesOf(dom) == SocialsLoop(LinksWithHref(dom), NoSocials)

----------------------------------------------------------------------------
(* Links: _fetch_important_links                                           *)

link_types ==
    << "order_tracking", "contact_us", "blogs", "shipping", "careers" >>

\* tokens of one character, which `.?` may consume
SingleChars == {"/", "-", "?", "@", "x", "a", "b", "_"}

\* a.?b
Near(s, a, b) ==
    \E i \in 1..Len(s) :
        /\ s[i] = a
        /\ \/ i + 1 <= Len(s) /\ s[i + 1] = b
           \/ i + 2 <= Len(s) /\ s[i + 1] \in SingleChars /\ s[i + 2] = b

\* a.?b.?c
Near3(s, a, b, c) ==
    \E i \in 1..Len(s) :
        /\ s[i] = a
        /\ LET j == IF i + 1 <= Len(s) /\ s[i + 1] = b THEN i + 1
                    ELSE IF i + 2 <= Len(s) /\ s[i + 1] \in SingleChars
                            /\ s[i + 2] = b THEN i + 2
                    ELSE 0
           IN  /\ j # 0
               /\ \/ j + 1 <= Len(s) /\ s[j + 1] = c
                  \/ j + 2 <= Len(s) /\ s[j + 1] \in SingleChars
                        /\ s[j + 2] = c

\* re.search(link_patterns[link_type], s)
LinkMatches(link_type, s) ==
    CASE link_type = "order_tracking" ->
            \/ Near(s, "order", "tracking")
            \/ Near(s, "track", "order")
            \/ Near(s, "track", "package")
      [] link_type = "contact_us" -> Occurs(s, << "contact" >>)
      [] link_type = "blogs" ->
            \/ Occurs(s, << "blog" >>)
            \/ Occurs(s, << "news" >>)
            \/ Occurs(s, << "articles" >>)
      [] link_type = "shipping" ->
            Occurs(s, << "shipping" >>) \/ Occurs(s, << "delivery" >>)
      [] OTHER ->
            \/ Occurs(s, << "careers" >>)
            \/ Occurs(s, << "jobs" >>)
            \/ Near(s, "join", "us")
            \/ Near3(s, "work", "with", "us")

NoLinks == [t \in {link_types[i] : i \in 1..Len(link_types)} |-> NoStr]

\* lines 431-437 for one anchor
AnchorMatchesLink(link_type, a) ==
    \/ LinkMatches(link_type, LowerStr(a.href.v))
    \/ LinkMatches(link_type, LowerStr(a.text))

\* full_url = urljoin(self.base_url, href), href the lower-cased attribute
FullUrl(rawhref) == UrlJoin(BaseUrl, LowerStr(rawhref))

RECURSIVE LinksLoop(_, _)
LinksLoop(as, lk) ==
    IF as = << >> THEN lk
    ELSE LinksLoop(Tail(as),
            [t \in DOMAIN NoLinks |->
                IF AnchorMatchesLink(t, Head(as))
                THEN Some(FullUrl(Head(as).href.v))
                ELSE lk[t]])

FetchImportantLinksOf(dom) == LinksLoop(LinksWithHref(dom), NoLinks)

----------------------------------------------------------------------------
(* Contact: _fetch_contact_info                                            *)

contact_paths ==
    << << "/", "contact" >>,
       << "/", "pages", "/", "contact" >>,
       << "/", "pages", "/", "contact-us" >> >>

\* tokens of the shape [\w\.-]+@[\w\.-]+\.[a-zA-Z]{2,}
EmailToks == {"info@shop.com", "help@shop.com"}

\* tokens of the shape \+?[\d\s\(\)\-]{10,20}
PhoneToks == {" +1 555 010 9999 ", " 2024-01-01 "}

\* len(re.sub(r'[\s\(\)\-]+', '', phone))
CleanLen(t) ==
    CASE t = " +1 555 010 9999 " -> 12
      [] t = " 2024-01-01 "      -> 8
      [] OTHER                   -> 0

MinPhoneLen == 10

\* contact_soup.get_text(): the text nodes of the page, those of its anchors
\* included
RECURSIVE AnchorTexts(_)
AnchorTexts(as) ==
    IF as = << >> THEN << >> ELSE Head(as).text \o AnchorTexts(Tail(as))

PageText(dom) == dom.text \o AnchorTexts(dom.anchors)

\* s.replace(tok, '')
Without(s, tok) == SelectSeq(s, LAMBDA t : t # tok)

\* s.strip() of a string of several tokens
RECURSIVE StripStr(_)
StripStr(s) ==
    IF s = << >> THEN s
    ELSE IF Strip(Head(s)) = "" THEN StripStr(Tail(s))
    ELSE IF Strip(s[Len(s)]) = "" THEN StripStr(SubSeq(s, 1, Len(s) - 1))
    ELSE s

\* lines 339-353
EmailsOf(dom) ==
    LET text   == PageText(dom)
        found  == {<< text[i] >> : i \in {j \in 1..Len(text) :
                                            text[j] \in EmailToks}}
        mailto == SelectSeq(LinksWithHref(dom),
                            LAMBDA a : Occurs(a.href.v, << "mailto:" >>))
        addr(a) == StripStr(Split(Without(a.href.v, "mailto:"), "?")[1])
    IN  found \cup {addr(mailto[i]) : i \in {j \in 1..Len(mailto) :
                        /\ addr(mailto[j]) # << >>
                        /\ Head(addr(mailto[j])) \in EmailToks}}

\* lines 356-372
PhonesOf(dom) ==
    LET text  == PageText(dom)
        found == {<< Strip(text[i]) >> : i \in {j \in 1..Len(text) :
                        /\ text[j] \in PhoneToks
                        /\ CleanLen(text[j]) >= MinPhoneLen}}
        tel   == SelectSeq(LinksWithHref(dom),
                           LAMBDA a : Occurs(a.href.v, << "tel:" >>))
    IN  found \cup {StripStr(Without(tel[i].href.v, "tel:")) :
                        i \in 1..Len(tel)}

\* lines 338-377 on the page chosen as contact_soup
ContactOf(dom) == [emails |-> EmailsOf(dom), phones |-> PhonesOf(dom)]

NoContact == [emails |-> {}, phones |-> {}]

\* lines 324-332 leaving the loop at any answered status
ContactIterationAnyStatus(r) ==
    IF r.raised # "none" THEN [break |-> FALSE]
    ELSE [break |-> TRUE]

\* One iteration of the loop of lines 324-332: the page found, Optional
ContactIteration(r) ==
    IF r.raised # "none" THEN [break |-> FALSE]
    ELSE IF r.status # 200 THEN [break |-> FALSE]
    ELSE [break |-> TRUE]

----------------------------------------------------------------------------
(* The Platform Detector: _check_is_shopify                                *)

\* the five indicators of lines 65-71 on a homepage [theme, cdn, myshopify,
\* link_cdn, script_cdn, dom]
ShopifyIndicators(home) ==
    << home.theme, home.cdn, home.myshopify, home.link_cdn, home.script_cdn >>

\* any(shopify_indicators)
AnyOf(flags) == \E i \in 1..Len(flags) : flags[i]

----------------------------------------------------------------------------
(* What the store can serve                                                *)

Anchor(href, text) == [href |-> Some(href), text |-> text]

PlainDom == [anchors |-> << >>, text |-> << >>]

RichDom ==
    [anchors |->
        << Anchor(<< "/", "products", "/", "a" >>, << "Shop" >>),
           Anchor(<< "https://", "www.", "instagram", ".com", "/", "Brand" >>,
                  << >>),
           Anchor(<< "/", "pages", "/", "Contact" >>, << "Contact" >>),
           Anchor(<< "mailto:", "info@shop.com" >>, << >>) >>,
     text |-> << " +1 555 010 9999 " >>]

HomeDoms == {PlainDom, RichDom}

HomePages ==
    [theme : BOOLEAN, cdn : BOOLEAN, myshopify : BOOLEAN, link_cdn : BOOLEAN,
     script_cdn : BOOLEAN, dom : HomeDoms]

NoTags == [kind |-> "missing", v |-> << >>]

GoodData(h) ==
    ProductData(h, Some(<< "T" >>), Some(<< h >>),
                [kind |-> "str", v |-> << "x", ", ", "y" >>],
                << [price |-> Some(<< "9.99" >>)] >>, << >>)

BadData(h) == ProductData(h, NoStr, Some(<< h >>), NoTags, << >>, << >>)

Feed(pds) == [json |-> TRUE, has_products |-> TRUE, products |-> pds]

NotJson == [json |-> FALSE, has_products |-> FALSE, products |-> << >>]

NoProductsKey == [json |-> TRUE, has_products |-> FALSE, products |-> << >>]

Feeds ==
    {NotJson, NoProductsKey, Feed(<< >>), Feed(<< GoodData("a") >>),
     Feed(<< GoodData("a"), BadData("b") >>)}

TextPages ==
    {[main |-> Some(<< " M " >>), div |-> Some(<< "D" >>)],
     [main |-> NoStr, div |-> Some(<< "M", " " >>)],
     [main |-> NoStr, div |-> NoStr]}

FaqItem(q, a) == [question |-> q, answer |-> a]

FaqQuestion(q, a) == [text |-> q, next |-> a]

FaqPages ==
    {[accordion |-> << >>, questions |-> << >>],
     [accordion |-> << FaqItem(Some(<< " Q? " >>), Some(<< "A1" >>)) >>,
      questions |-> << FaqQuestion(<< "Q?" >>, Some(<< "A2" >>)) >>]}

ContactPages ==
    {[anchors |-> << >>, text |-> << "help@shop.com" >>],
     [anchors |-> << >>, text |-> << >>]}

----------------------------------------------------------------------------
(* The run: get_brand_context                                              *)

NoDoc ==
    [brand |-> "", products |-> << >>, hero_products |-> << >>,
     policies |-> [t \in {policy_types[i] : i \in 1..Len(policy_types)}
                     |-> NoStr],
     faqs |-> << >>, socials |-> NoSocials, contact |-> NoContact,
     about |-> NoStr, links |-> NoLinks]

\* POST /insights has not answered
NoResponse == None([status_code |-> 0, body |-> None(NoDoc)])

\* ShopifyScraper(request.website_url), lines 14-19: the state the
\* constructor leaves for the request of the run
Constructed ==
    /\ http_response = NoResponse
    /\ website_url = << "shop.com", "/" >>
    /\ normalized = Some(BaseUrl)

boundary == <<http_response, website_url, normalized>>

Init ==
    /\ pc = "start"
    /\ session = "none"
    /\ soup = None(PlainDom)
    /\ is_shopify = FALSE
    /\ ep = 1
    /\ ptype = 1
    /\ path = 1
    /\ products = << >>
    /\ hero_products = << >>
    /\ policies = NoDoc.policies
    /\ faqs = << >>
    /\ socials = NoSocials
    /\ contact = NoContact
    /\ about = NoStr
    /\ links = NoLinks
    /\ pending = "none"
    /\ result = "none"
    /\ brand_context = None(NoDoc)
    /\ opened = 0
    /\ closed = 0
    /\ nFetch = 0
    /\ homeFetches = 0
    /\ lastUrl = << >>
    /\ seen200 = FALSE
    /\ seenContent = FALSE
    /\ contactFrom = "unset"
    /\ allMissed = TRUE
    /\ served = None(FetchUrl("ClientError", 0, << >>))
    /\ ran = {}
    /\ contactSrc = None(PlainDom)
    /\ Constructed

locals == <<products, hero_products, policies, faqs, socials, contact, about,
            links>>

loopvars == <<ep, ptype, path, seen200, seenContent>>

fetchvars == <<session, opened, nFetch, homeFetches, lastUrl, allMissed>>

\* the bookkeeping of one call of _fetch_url(url): _init_session opens the
\* session if there is none, and one GET is issued
Fetched(url, r) ==
    /\ session' = "open"
    /\ opened' = IF session = "none" THEN opened + 1 ELSE opened
    /\ nFetch' = nFetch + 1
    /\ homeFetches' = IF url = BaseUrl THEN homeFetches + 1 ELSE homeFetches
    /\ lastUrl' = url
    /\ allMissed' = (allMissed /\ (url = BaseUrl \/ Missed(r)))
    /\ UNCHANGED served

\* an exception leaves the try block of get_brand_context
Raise(e) ==
    /\ pending' = e
    /\ pc' = "finally"

\* lines 447-448: a store that is not on the platform is rejected
PlatformGateOpen(shopify) ==
    pc' = "products" /\ UNCHANGED pending

PlatformGate(shopify) ==
    IF shopify
    THEN pc' = "products" /\ UNCHANGED pending
    ELSE Raise("InvalidShopifyStoreError")

\* lines 445-448: _check_is_shopify and the gate
CheckIsShopify ==
    /\ pc = "start"
    /\ \E r \in Answers(HomePages) :
             /\ Fetched(BaseUrl, r)
             /\ IF r.raised # "none"
                THEN /\ Raise(r.raised)
                     /\ UNCHANGED <<soup, is_shopify>>
                ELSE IF r.status # 200
                THEN /\ Raise("WebsiteNotFoundException")
                     /\ UNCHANGED <<soup, is_shopify>>
                ELSE /\ soup' = Some(r.content.dom)
                     /\ is_shopify' = AnyOf(ShopifyIndicators(r.content))
                     /\ PlatformGate(is_shopify')
    /\ UNCHANGED <<locals, loopvars, result, brand_context, closed,
                   contactFrom, contactSrc, ran>>
    /\ UNCHANGED boundary

\* _fetch_products: one pass of the endpoint loop per step
FetchProducts ==
    /\ pc = "products"
    /\ \E r \in Answers(Feeds) :
         LET it == ProductsIteration(r, products)
         IN  /\ Fetched(UrlJoin(BaseUrl, product_endpoints[ep]), r)
             /\ products' = it.products
             /\ IF it.break \/ ep = Len(product_endpoints)
                THEN /\ pc' = "hero"
                     /\ ep' = 1
                     /\ seen200' = FALSE
                     /\ seenContent' = FALSE
                     /\ ran' = ran \cup {"products"}
                ELSE /\ pc' = pc
                     /\ ep' = ep + 1
                     /\ seen200' = (seen200 \/ Answered200(r))
                     /\ seenContent' =
                            (seenContent \/ (/\ Answered200(r)
                                             /\ r.content.json
                                             /\ r.content.has_products))
                     /\ ran' = ran
    /\ UNCHANGED <<soup, is_shopify, ptype, path, hero_products,
                   policies, faqs, socials, contact, about, links, pending,
                   result, brand_context, closed, contactFrom, contactSrc>>
    /\ UNCHANGED boundary

\* The homepage DOM an extractor works on, lines 134-136, 254-256, 314-316,
\* 412-414: the cached one and no request, or the answer of a request for
\* base_url, whose status is ignored and whose exception leaves the run.
HomeAnswersUncached ==
    {[cached |-> FALSE, r |-> FetchUrl(t, st, home), dom |-> home.dom] :
        t \in Transports, st \in Statuses, home \in HomePages}

HomeAnswers ==
    IF soup.some
    THEN {[cached |-> TRUE, r |-> FetchUrl("response", 200, soup.v),
           dom |-> soup.v]}
    ELSE {[cached |-> FALSE, r |-> FetchUrl(t, st, home), dom |-> home.dom] :
            t \in Transports, st \in Statuses, home \in HomePages}

AcquireHome(h) ==
    IF h.cached
    THEN UNCHANGED <<soup, fetchvars, served>>
    ELSE /\ Fetched(BaseUrl, h.r)
         /\ soup' = IF h.r.raised = "none" THEN Some(h.dom) ELSE soup

\* _fetch_hero_products
FetchHeroProducts ==
    /\ pc = "hero"
    /\ \E h \in HomeAnswers :
         /\ AcquireHome(h)
         /\ IF h.r.raised # "none"
            THEN /\ Raise(h.r.raised)
                 /\ UNCHANGED <<hero_products, ran>>
            ELSE /\ hero_products' = FetchHeroProductsOf(h.dom, products)
                 /\ pc' = "policies"
                 /\ ran' = ran \cup {"hero_products"}
                 /\ UNCHANGED pending
    /\ UNCHANGED <<is_shopify, loopvars, products, policies, faqs, socials,
                   contact, about, links, result, brand_context, closed,
                   contactFrom, contactSrc>>
    /\ UNCHANGED boundary

\* the history of a candidate loop after the answer r: cleared when the loop
\* is left
LoopHistory(leaves, r, content) ==
    /\ seen200' = (~leaves /\ (seen200 \/ Answered200(r)))
    /\ seenContent' = (~leaves /\ (seenContent \/ (Answered200(r) /\ content)))

\* _fetch_policies without the except clause of lines 193-195
FetchPoliciesNoCatch ==
    /\ pc = "policies"
    /\ \E r \in Answers(TextPages) :
         LET page   == r.content
             type   == policy_types[ptype]
             it     == TextIteration(r)
             leaves == it.break \/ path = Len(policy_paths[type])
         IN  /\ Fetched(UrlJoin(BaseUrl, policy_paths[type][path]), r)
             /\ policies' = IF it.break
                            THEN [policies EXCEPT ![type] = Some(it.text)]
                            ELSE policies
             /\ LoopHistory(leaves, r, MainContent(page).some)
             /\ IF r.raised # "none"
                THEN /\ Raise(r.raised)
                     /\ UNCHANGED <<ptype, path, ran>>
                ELSE IF ~leaves
                THEN /\ path' = path + 1
                     /\ UNCHANGED <<pc, ptype, ran, pending>>
                ELSE /\ path' = 1
                     /\ UNCHANGED pending
                     /\ IF ptype < Len(policy_types)
                        THEN /\ ptype' = ptype + 1
                             /\ UNCHANGED <<pc, ran>>
                        ELSE /\ ptype' = 1
                             /\ pc' = "faqs"
                             /\ ran' = ran \cup {"policies"}
    /\ UNCHANGED <<soup, is_shopify, ep, products, hero_products, faqs,
                   socials, contact, about, links, result,
                   brand_context, closed, contactFrom, contactSrc>>
    /\ UNCHANGED boundary

\* _fetch_policies: one pass of the inner loop per step
FetchPolicies ==
    /\ pc = "policies"
    /\ \E r \in Answers(TextPages) :
         LET page   == r.content
             type   == policy_types[ptype]
             it     == TextIteration(r)
             leaves == it.break \/ path = Len(policy_paths[type])
         IN  /\ Fetched(UrlJoin(BaseUrl, policy_paths[type][path]), r)
             /\ policies' = IF it.break
                            THEN [policies EXCEPT ![type] = Some(it.text)]
                            ELSE policies
             /\ LoopHistory(leaves, r, MainContent(page).some)
             /\ IF ~leaves
                THEN /\ path' = path + 1
                     /\ UNCHANGED <<pc, ptype, ran>>
                ELSE /\ path' = 1
                     /\ IF ptype < Len(policy_types)
                        THEN /\ ptype' = ptype + 1
                             /\ UNCHANGED <<pc, ran>>
                        ELSE /\ ptype' = 1
                             /\ pc' = "faqs"
                             /\ ran' = ran \cup {"policies"}
    /\ UNCHANGED <<soup, is_shopify, ep, products, hero_products, faqs,
                   socials, contact, about, links, pending, result,
                   brand_context, closed, contactFrom, contactSrc>>
    /\ UNCHANGED boundary

\* the pass of the loop of _fetch_faqs that handles the answer r
FaqsPass(r) ==
    LET it     == FaqsIteration(r, faqs)
        leaves == it.break \/ path = Len(faq_paths)
    IN  /\ faqs' = it.faqs
        /\ LoopHistory(leaves, r,
               AccordionFaqs(r.content.accordion) # << >>
                   \/ FlatFaqs(r.content.questions) # << >>)
        /\ IF ~leaves
           THEN /\ path' = path + 1
                /\ UNCHANGED <<pc, ran>>
           ELSE /\ path' = 1
                /\ pc' = "socials"
                /\ ran' = ran \cup {"faqs"}
        /\ UNCHANGED <<soup, is_shopify, ep, ptype, products, hero_products,
                       policies, socials, contact, about, links, pending,
                       result, brand_context, closed, contactFrom, contactSrc>>
        /\ UNCHANGED boundary

\* _fetch_faqs in a scenario that fixes what the store serves
FetchFaqsServed ==
    /\ pc = "faqs"
    /\ served.some
    /\ Fetched(UrlJoin(BaseUrl, faq_paths[path]), served.v)
    /\ FaqsPass(served.v)

\* _fetch_faqs: one pass of the loop per step
FetchFaqs ==
    /\ pc = "faqs"
    /\ ~served.some
    /\ \E r \in Answers(FaqPages) :
             /\ Fetched(UrlJoin(BaseUrl, faq_paths[path]), r)
             /\ FaqsPass(r)

\* _fetch_social_handles
FetchSocialHandles ==
    /\ pc = "socials"
    /\ \E h \in HomeAnswers :
         /\ AcquireHome(h)
         /\ IF h.r.raised # "none"
            THEN /\ Raise(h.r.raised)
                 /\ UNCHANGED <<socials, ran>>
            ELSE /\ socials' = FetchSocialHandlesOf(h.dom)
                 /\ pc' = "contact"
                 /\ ran' = ran \cup {"socials"}
                 /\ UNCHANGED pending
    /\ UNCHANGED <<is_shopify, loopvars, products, hero_products, policies,
                   faqs, contact, about, links, result, brand_context, closed,
                   contactFrom, contactSrc>>
    /\ UNCHANGED boundary

\* _fetch_contact_info: one pass of the loop per step; the pass that leaves
\* the loop goes on to lines 334-377
FetchContactInfo ==
    /\ pc = "contact"
    /\ soup.some
    /\ \E r \in Answers(ContactPages) :
         LET it     == ContactIteration(r)
             leaves == it.break \/ path = Len(contact_paths)
         IN  /\ Fetched(UrlJoin(BaseUrl, contact_paths[path]), r)
             /\ LoopHistory(leaves, r, TRUE)
             /\ contactSrc' = IF Answered200(r) /\ ~contactSrc.some
                              THEN Some(r.content)
                              ELSE contactSrc
             /\ IF ~leaves
                THEN /\ path' = path + 1
                     /\ UNCHANGED <<pc, ran, contact, contactFrom>>
                ELSE /\ path' = 1
                     /\ contact' = ContactOf(IF it.break THEN r.content
                                             ELSE soup.v)
                     /\ contactFrom' = IF it.break THEN "page" ELSE "homepage"
                     /\ pc' = "about"
                     /\ ran' = ran \cup {"contact"}
    /\ UNCHANGED <<soup, is_shopify, ep, ptype, products, hero_products,
                   policies, faqs, socials, about, links, pending, result,
                   brand_context, closed>>
    /\ UNCHANGED boundary

\* _fetch_about: one pass of the loop per step
FetchAbout ==
    /\ pc = "about"
    /\ \E r \in Answers(TextPages) :
         LET page   == r.content
             it     == TextIteration(r)
             leaves == it.break \/ path = Len(about_paths)
         IN  /\ Fetched(UrlJoin(BaseUrl, about_paths[path]), r)
             /\ about' = IF it.break THEN Some(it.text) ELSE about
             /\ LoopHistory(leaves, r, MainContent(page).some)
             /\ IF ~leaves
                THEN /\ path' = path + 1
                     /\ UNCHANGED <<pc, ran>>
                ELSE /\ path' = 1
                     /\ pc' = "links"
                     /\ ran' = ran \cup {"about"}
    /\ UNCHANGED <<soup, is_shopify, ep, ptype, products, hero_products,
                   policies, faqs, socials, contact, links, pending, result,
                   brand_context, closed, contactFrom, contactSrc>>
    /\ UNCHANGED boundary

\* brand = urlparse(self.base_url).netloc
Brand == BaseUrl[2]

\* BrandContext(...) of lines 465-475
Assemble(ps, hero, pol, fq, soc, con, ab, lk) ==
    [brand |-> Brand, products |-> ps, hero_products |-> hero,
     policies |-> pol, faqs |-> fq, socials |-> soc, contact |-> con,
     about |-> ab, links |-> lk]

\* _fetch_important_links, then the assembly and the return of lines 465-477
FetchImportantLinks ==
    /\ pc = "links"
    /\ \E h \in HomeAnswers :
         /\ AcquireHome(h)
         /\ IF h.r.raised # "none"
            THEN /\ Raise(h.r.raised)
                 /\ UNCHANGED <<links, ran, brand_context>>
            ELSE /\ links' = FetchImportantLinksOf(h.dom)
                 /\ ran' = ran \cup {"links"}
                 /\ brand_context' =
                        Some(Assemble(products, hero_products, policies, faqs,
                                      socials, contact, about, links'))
                 /\ pending' = "document"
                 /\ pc' = "finally"
    /\ UNCHANGED <<is_shopify, loopvars, products, hero_products, policies,
                   faqs, socials, contact, about, result, closed,
                   contactFrom, contactSrc>>
    /\ UNCHANGED boundary

\* the finally clause, lines 478-480: _close_session, after which the
\* document or the exception reaches the caller
CloseSessionSkipOnError ==
    /\ pc = "finally"
    /\ IF session # "none" /\ pending = "document"
       THEN session' = "none" /\ closed' = closed + 1
       ELSE UNCHANGED <<session, closed>>
    /\ result' = pending
    /\ pc' = "released"
    /\ UNCHANGED <<soup, is_shopify, loopvars, locals, pending,
                   brand_context, opened, nFetch, homeFetches, lastUrl,
                   contactFrom, contactSrc, allMissed, served, ran>>
    /\ UNCHANGED boundary

CloseSession ==
    /\ pc = "finally"
    /\ IF session # "none"
       THEN session' = "none" /\ closed' = closed + 1
       ELSE UNCHANGED <<session, closed>>
    /\ result' = pending
    /\ pc' = "released"
    /\ UNCHANGED <<soup, is_shopify, loopvars, locals, pending,
                   brand_context, opened, nFetch, homeFetches, lastUrl,
                   contactFrom, contactSrc, allMissed, served, ran>>
    /\ UNCHANGED boundary

\* lines 16-21 with the two application failures answered alike
StatusCodeOfFlat(outcome) ==
    CASE outcome = "document" -> 200
      [] outcome = "WebsiteNotFoundException" -> 400
      [] outcome = "InvalidShopifyStoreError" -> 400
      [] OTHER -> 500

\* the status code get_insights answers with, lines 15-21: 200 for the
\* returned document, else that of the first except clause that matches
StatusCodeOf(outcome) ==
    CASE outcome = "document" -> 200
      [] outcome = "WebsiteNotFoundException" -> 401
      [] outcome = "InvalidShopifyStoreError" -> 400
      [] OTHER -> 500

\* get_insights, lines 13-21, once get_brand_context has returned or raised
GetInsights ==
    /\ pc = "released"
    /\ ~http_response.some
    /\ http_response' =
            Some([status_code |-> StatusCodeOf(result),
                  body |-> IF result = "document" THEN brand_context
                           ELSE None(NoDoc)])
    /\ UNCHANGED <<pc, session, soup, is_shopify, loopvars, locals, pending,
                   result, brand_context, opened, closed, nFetch,
                   homeFetches, lastUrl, contactFrom, contactSrc, allMissed,
                   served, ran, website_url, normalized>>

Next ==
    \/ CheckIsShopify
    \/ FetchProducts
    \/ FetchHeroProducts
    \/ FetchPolicies
    \/ FetchFaqs
    \/ FetchSocialHandles
    \/ FetchContactInfo
    \/ FetchAbout
    \/ FetchImportantLinks
    \/ CloseSession
    \/ GetInsights

Spec == Init /\ [][Next]_vars

\* every awaited fetch returns or raises, and the handler goes on
SpecLive == Spec /\ WF_vars(Next)

----------------------------------------------------------------------------
(* Scenarios: the run taken up after the platform check, on richer pages   *)

\* what every state after a passed platform check on the homepage dom shares
\* until the run ends
AfterGate(dom) ==
    /\ session = "open"
    /\ soup = Some(dom)
    /\ is_shopify = TRUE
    /\ ep = 1
    /\ ptype = 1
    /\ path = 1
    /\ pending = "none"
    /\ result = "none"
    /\ brand_context = None(NoDoc)
    /\ opened = 1
    /\ closed = 0
    /\ homeFetches = 1
    /\ seen200 = FALSE
    /\ seenContent = FALSE
    /\ contactFrom = "unset"
    /\ contactSrc = None(PlainDom)
    /\ Constructed
    /\ contact = NoContact
    /\ about = NoStr
    /\ links = NoLinks

MaxHomeLinks == 12

MaxCatalog == 12

MaxPrefix == 2

HandleNames ==
    << "h1", "h2", "h3", "h4", "h5", "h6", "h7", "h8", "h9", "h10", "h11",
       "h12", "h13", "h14" >>

HandleName(i) == HandleNames[((i - 1) % Len(HandleNames)) + 1]

\* k homepage links to the products h(step), h(2 step), ...
ProductLinkRun(k, step) ==
    [i \in 1..k |->
        Anchor(<< "/", "products", "/", HandleName(i * step) >>, << >>)]

\* the products h1 .. hm of a feed, in feed order, in reverse, or followed by
\* a second product with the handle h1
Catalog(m, kind) ==
    LET asc == [i \in 1..m |-> MakeProduct(GoodData(HandleName(i)))]
    IN  CASE kind = "asc"  -> asc
          [] kind = "desc" -> [i \in 1..m |-> asc[m + 1 - i]]
          [] OTHER -> Append(asc, [MakeProduct(GoodData("h1"))
                                      EXCEPT !.id = "dup"])

OtherAnchors ==
    {Anchor(<< "/", "products", "/", "h2", "?", "ref" >>, << >>),
     Anchor(<< "/", "collections", "/", "all", "/", "products", "/", "h1" >>,
            << >>),
     Anchor(<< "/", "products", "/" >>, << >>),
     Anchor(<< "/", "products", "/", "gone" >>, << >>)}

SeqsUpTo(S, n) == UNION {[1..k -> S] : k \in 0..n}

HeroDoms ==
    {[anchors |-> pre \o ProductLinkRun(k, step), text |-> << >>] :
        pre \in SeqsUpTo(OtherAnchors, MaxPrefix), k \in 0..MaxHomeLinks,
        step \in {1, 5}}

\* the run about to extract the hero products
InitHero ==
    /\ pc = "hero"
    /\ \E dom \in HeroDoms : AfterGate(dom)
    /\ \E m \in 0..MaxCatalog, kind \in {"asc", "desc", "dup"} :
            products = Catalog(m, kind)
    /\ hero_products = << >>
    /\ policies = NoDoc.policies
    /\ faqs = << >>
    /\ socials = NoSocials
    /\ nFetch = 2
    /\ lastUrl = UrlJoin(BaseUrl, product_endpoints[1])
    /\ allMissed = FALSE
    /\ served = None(FetchUrl("ClientError", 0, << >>))
    /\ ran = {"products"}

SpecHero == InitHero /\ [][FetchHeroProducts]_vars

MaxItems == 2

MaxQuestions == 2

FaqItems ==
    {FaqItem(Some(<< " Q? " >>), Some(<< "A1" >>)),
     FaqItem(NoStr, Some(<< "A1" >>)),
     FaqItem(Some(<< "Q1" >>), Some(<< " " >>))}

FaqQuestions ==
    {FaqQuestion(<< "Q?" >>, Some(<< "A2" >>)),
     FaqQuestion(<< "Q2" >>, NoStr)}

RichFaqPages ==
    {[accordion |-> items, questions |-> qs] :
        items \in SeqsUpTo(FaqItems, MaxItems),
        qs \in SeqsUpTo(FaqQuestions, MaxQuestions)}

\* the run about to request the first FAQ path, every policy found at its
\* first path
InitFaq ==
    /\ pc = "faqs"
    /\ AfterGate(PlainDom)
    /\ products = << >>
    /\ hero_products = << >>
    /\ policies = [t \in DOMAIN NoDoc.policies |-> Some(<< "M" >>)]
    /\ faqs = << >>
    /\ socials = NoSocials
    /\ nFetch = 6
    /\ lastUrl = UrlJoin(BaseUrl, policy_paths["terms"][1])
    /\ allMissed = FALSE
    /\ \E st \in Statuses, page \in RichFaqPages :
            served = Some(FetchUrl("response", st, page))
    /\ ran = {"products", "hero_products", "policies"}

SpecFaq == InitFaq /\ [][FetchFaqsServed]_vars

MaxAnchors == 2

HomeAnchors ==
    {Anchor(<< "https://", "www.", "instagram", ".com", "/", "Brand" >>,
            << >>),
     Anchor(<< "https://", "instagram", ".com", "/" >>, << "Instagram" >>),
     Anchor(<< "https://", "x", ".com", "/", "shop" >>, << >>),
     Anchor(<< "https://", "www.", "youtube", ".com", "/", "@", "Brand" >>,
            << >>),
     Anchor(<< "https://", "linkedin", ".com", "/", "company", "/", "brand",
               "-", "shop" >>, << >>),
     Anchor(<< "/", "pages", "/", "Contact" >>, << "Contact", "-", "us" >>),
     Anchor(<< "/", "pages", "/", "contact", "-", "us" >>, << >>),
     Anchor(<< "/", "blogs", "/", "news" >>, << "Blog" >>),
     Anchor(<< "track", "-", "order" >>, << "jobs" >>),
     [href |-> NoStr, text |-> << "contact" >>]}

SocialDoms ==
    {[anchors |-> as, text |-> << >>] :
        as \in SeqsUpTo(HomeAnchors, MaxAnchors)}

\* the run about to extract the socials, nothing found on any earlier page
InitHome ==
    /\ pc = "socials"
    /\ \E dom \in SocialDoms : AfterGate(dom)
    /\ products = << >>
    /\ hero_products = << >>
    /\ policies = NoDoc.policies
    /\ faqs = << >>
    /\ socials = NoSocials
    /\ nFetch = 21
    /\ lastUrl = UrlJoin(BaseUrl, faq_paths[Len(faq_paths)])
    /\ allMissed = TRUE
    /\ served = None(FetchUrl("ClientError", 0, << >>))
    /\ ran = {"products", "hero_products", "policies", "faqs"}

NextHome ==
    \/ FetchSocialHandles
    \/ FetchContactInfo
    \/ FetchAbout
    \/ FetchImportantLinks
    \/ CloseSession

SpecHome == InitHome /\ [][NextHome]_vars

MaxUrlLen == 3

\* the request URLs: an optional http:// or https:// and up to MaxUrlLen
\* tokens of host, path segment and separators
UrlInputs ==
    {pre \o body :
        pre \in {<< >>, << "http://" >>, << "https://" >>},
        body \in SeqsUpTo({"shop.com", "a", "/", ";", "?", "#"}, MaxUrlLen)}

\* the request about to construct its scraper
InitNormalize ==
    /\ pc = "construct"
    /\ website_url \in UrlInputs
    /\ normalized = None(<< >>)
    /\ http_response = NoResponse
    /\ session = "none"
    /\ soup = None(PlainDom)
    /\ is_shopify = FALSE
    /\ ep = 1
    /\ ptype = 1
    /\ path = 1
    /\ products = << >>
    /\ hero_products = << >>
    /\ policies = NoDoc.policies
    /\ faqs = << >>
    /\ socials = NoSocials
    /\ contact = NoContact
    /\ about = NoStr
    /\ links = NoLinks
    /\ pending = "none"
    /\ result = "none"
    /\ brand_context = None(NoDoc)
    /\ opened = 0
    /\ closed = 0
    /\ nFetch = 0
    /\ homeFetches = 0
    /\ lastUrl = << >>
    /\ seen200 = FALSE
    /\ seenContent = FALSE
    /\ contactFrom = "unset"
    /\ contactSrc = None(PlainDom)
    /\ allMissed = TRUE
    /\ served = None(FetchUrl("ClientError", 0, << >>))
    /\ ran = {}

\* ShopifyScraper.__init__, line 16
ScraperInit ==
    /\ pc = "construct"
    /\ normalized' = Some(NormalizeUrl(website_url))
    /\ pc' = "constructed"
    /\ UNCHANGED <<session, soup, is_shopify, loopvars, locals, pending,
                   result, brand_context, opened, closed, nFetch,
                   homeFetches, lastUrl, contactFrom, contactSrc, allMissed,
                   served, ran, http_response, website_url>>

SpecNormalize == InitNormalize /\ [][ScraperInit]_vars

----------------------------------------------------------------------------
(* Properties of the run                                                   *)

Extractors ==
    {"products", "hero_products", "policies", "faqs", "socials", "contact",
     "about", "links"}

Failures ==
    {"WebsiteNotFoundException", "InvalidShopifyStoreError", "TimeoutError",
     "UnicodeDecodeError"}

Surfaced == result # "none"

\* C1: every run that has surfaced a document or a failure to its caller has
\* opened one session and closed it once, before surfacing; no session is
\* closed twice and none is open once the run has ended.
C1_SessionReleasedOnce ==
    /\ closed <= 1
    /\ closed <= opened
    /\ Surfaced => (session = "none" /\ opened = 1 /\ closed = 1)
    /\ pc = "released" => (Surfaced /\ session = "none")
    /\ session = "open" => (opened = closed + 1 /\ ~Surfaced)

C1_Witness ==
    /\ pc = "released"
    /\ result \in Failures
    /\ opened = 1
    /\ closed = 1

\* C2: a homepage answered with 200 on which no platform signature matches
\* ends the run with InvalidShopifyStoreError after that one request, with
\* no document; and no URL but the homepage is requested unless the platform
\* check has passed.
C2_RejectedAfterOneFetch ==
    /\ (soup.some /\ ~is_shopify) =>
            /\ pc \in {"finally", "released"}
            /\ pending = "InvalidShopifyStoreError"
            /\ nFetch = 1
            /\ lastUrl = BaseUrl
            /\ ran = {}
            /\ ~brand_context.some
            /\ pc = "released" => result = "InvalidShopifyStoreError"
    /\ (nFetch > 1 \/ (nFetch = 1 /\ lastUrl # BaseUrl)) => is_shopify
    /\ result = "InvalidShopifyStoreError" => (soup.some /\ ~is_shopify)

C2_Witness ==
    /\ pc = "released"
    /\ soup.some
    /\ ~is_shopify
    /\ result = "InvalidShopifyStoreError"

\* C3 (as claimed): a homepage request that ends in a transport failure or
\* in a status other than 200 ends the run with WebsiteNotFoundException,
\* after that one request and with no document.  A body that cannot be
\* decoded is no transport failure and is left out.
C3_HomepageFailureIsNotReachable ==
    (pc \in {"finally", "released"} /\ ~soup.some
        /\ pending # "UnicodeDecodeError") =>
            /\ pending = "WebsiteNotFoundException"
            /\ nFetch = 1
            /\ ~brand_context.some

\* C4: once the platform check has passed the run ends with a document, all
\* eight extractors having run, whatever the later requests were answered.
C4_NoExtractorAbortsTheRun ==
    /\ (is_shopify /\ pc \in {"finally", "released"}) =>
            /\ pending = "document"
            /\ brand_context.some
            /\ ran = Extractors
    /\ (is_shopify /\ pc = "released") => result = "document"
    /\ pending \in {"none", "document"} \cup Failures
    /\ (pending \in Failures /\ pending # "InvalidShopifyStoreError")
            => nFetch = 1

C4_Witness ==
    /\ pc = "released"
    /\ result = "document"
    /\ ~allMissed
    /\ nFetch = 29
    /\ brand_context.v.products # << >>

EmptyDocument ==
    [NoDoc EXCEPT !.brand = Brand]

AllMissedDocument ==
    pc = "released" /\ result = "document" /\ allMissed

\* C5 (as claimed): when every request after the homepage's is answered 404,
\* the document returned has products empty and every other field at its
\* empty default.
C5_AllMissedGivesEmptyDocument ==
    AllMissedDocument => brand_context.v = EmptyDocument

\* C5 (amended): when every request after the homepage's is answered 404,
\* the run returns a document whose products, hero_products, policies, faqs
\* and about are at their empty defaults; socials, links and contact are
\* what the homepage yields, and the whole document is the empty one when
\* the homepage has no anchor and no text.
C5_AllMissedGivesHomepageOnly ==
    /\ (pc = "released" /\ allMissed /\ is_shopify) => result = "document"
    /\ AllMissedDocument =>
            /\ brand_context.v.products = << >>
            /\ brand_context.v.hero_products = << >>
            /\ \A t \in DOMAIN brand_context.v.policies :
                    ~brand_context.v.policies[t].some
            /\ brand_context.v.faqs = << >>
            /\ ~brand_context.v.about.some
            /\ contactFrom = "homepage"
            /\ soup.v = PlainDom => brand_context.v = EmptyDocument
            /\ soup.v = RichDom =>
                    /\ brand_context.v.socials["instagram"]
                            = Some(<< "@", "brand" >>)
                    /\ brand_context.v.contact.emails
                            = {<< "info@shop.com" >>}
                    /\ brand_context.v.links["contact_us"].some

C5_Witness == AllMissedDocument /\ soup.v = RichDom /\ nFetch = 29

\* C6 (as claimed): the second feed is requested only when the first was
\* not answered with a parseable document that has a products collection,
\* and what the second request starts from is an empty list.
C6_SecondFeedOnlyAfterInvalidFirst ==
    (pc = "products" /\ ep = 2) => (~seenContent /\ products = << >>)

TextLoops == {"policies", "faqs", "about"}

\* C10 (as claimed): in the candidate loop of a text-block field no further
\* path is requested once a path of the field has been answered 200.
C10_NoRequestAfter200 ==
    pc \in TextLoops => ~seen200

CurrentPaths ==
    CASE pc = "policies" -> policy_paths[policy_types[ptype]]
      [] pc = "faqs"     -> faq_paths
      [] pc = "about"    -> about_paths
      [] OTHER           -> << >>

\* what one step inside a text-block loop does
TextLoopStep ==
    pc \in TextLoops =>
        /\ lastUrl' = UrlJoin(BaseUrl, CurrentPaths[path])
        /\ (pc' = pc /\ ptype' = ptype) =>
                (path' = path + 1 /\ policies' = policies
                    /\ faqs' = faqs /\ about' = about)
        /\ (path < Len(CurrentPaths) /\ ~seenContent' /\ seen200')
                => (pc' = pc /\ ptype' = ptype)

\* C10 (amended): the candidate paths of a text-block field are requested
\* in their listed order; a path answered 200 in which the content is found
\* (a main element or a matching div; for FAQs at least one pair) ends the
\* field's loop and gives the field its value, assigned once; any other
\* answer (another status, an exception, a 200 without that content) moves
\* to the next path, and a field whose paths are exhausted keeps its empty
\* default.
C10_StopsAtFirstContent ==
    /\ [](pc \in TextLoops => ~seenContent)
    /\ [](pc = "policies" =>
            \A i \in ptype..Len(policy_types) :
                ~policies[policy_types[i]].some)
    /\ [](pc = "faqs" => faqs = << >>)
    /\ [](pc = "about" => ~about.some)
    /\ [][TextLoopStep]_vars

C10_Witness ==
    /\ pc = "policies"
    /\ ptype = 2
    /\ path = 3
    /\ seen200
    /\ policies["privacy"].some

----------------------------------------------------------------------------
(* Properties of the extractors                                            *)

\* the handles of the homepage's product links, in document order
HomeHandles ==
    LET pl == ProductLinks(soup.v)
    IN  [i \in 1..Len(pl) |-> HandleOf(pl[i].href.v)]

\* the index of the first of the handles hh that is h
FirstLink(hh, h) == Min({i \in 1..Len(hh) : hh[i] = h})

\* those of the handles hh that some product of the catalog has
SharedHandles(hh) ==
    {h \in {hh[i] : i \in 1..Len(hh)} :
        h # << >> /\ \E j \in 1..Len(products) : products[j].handle = h}

HeroHandles == {hero_products[i].handle : i \in 1..Len(hero_products)}

\* C7: hero_products holds only products of the extracted list, each under
\* a handle of a homepage link, at most one per handle and at most 10; they
\* stand in the order in which the homepage first links to them, and a
\* shared handle is left out only when 10 earlier ones were taken.
C7_HeroProductsFromCatalog ==
    "hero_products" \in ran =>
        LET hh     == HomeHandles
            shared == SharedHandles(hh)
            first  == [h \in shared |-> FirstLink(hh, h)]
        IN  /\ Len(hero_products) <= HeroLimit
            /\ \A i \in 1..Len(hero_products) :
                    /\ \E j \in 1..Len(products) :
                            hero_products[i] = products[j]
                    /\ hero_products[i].handle \in shared
            /\ \A i, j \in 1..Len(hero_products) :
                    i < j => first[hero_products[i].handle]
                                < first[hero_products[j].handle]
            /\ \A h \in shared \ HeroHandles :
                    /\ Len(hero_products) = HeroLimit
                    /\ \A i \in 1..Len(hero_products) :
                            first[hero_products[i].handle] < first[h]

C7_Witness ==
    /\ "hero_products" \in ran
    /\ Len(hero_products) = HeroLimit
    /\ SharedHandles(HomeHandles) \ HeroHandles # {}
    /\ \E i \in 1..Len(HomeHandles) : HomeHandles[i] = << "gone" >>
    /\ \E i \in 1..Len(HomeHandles) : HomeHandles[i] = << >>

\* C8: the FAQ list taken from a page is the accordion pairs when there is
\* at least one, and the flat heading/next-block pairs only when there is
\* none; the two are never merged.
C8_FlatOnlyWithoutAccordion ==
    (served.some /\ Answered200(served.v)) =>
        LET acc  == AccordionFaqs(served.v.content.accordion)
            flat == FlatFaqs(served.v.content.questions)
        IN  /\ pc = "faqs" => faqs = << >>
            /\ ("faqs" \in ran /\ acc # << >>) => faqs = acc
            /\ ("faqs" \in ran /\ acc = << >>) => faqs = flat

C8_Witness ==
    /\ served.some
    /\ Answered200(served.v)
    /\ "faqs" \in ran
    /\ AccordionFaqs(served.v.content.accordion) # << >>
    /\ FlatFaqs(served.v.content.questions) # << >>
    /\ faqs = AccordionFaqs(served.v.content.accordion)

\* the anchors with an href, and the last of them that matches
HrefAnchors == LinksWithHref(soup.v)

LastSocialMatch(p) ==
    LET M == {i \in 1..Len(HrefAnchors) :
                SocialMatches(p, LowerStr(HrefAnchors[i].href.v))}
    IN  IF M = {} THEN 0 ELSE CHOOSE i \in M : \A j \in M : j <= i

LastLinkMatch(t) ==
    LET M == {i \in 1..Len(HrefAnchors) : AnchorMatchesLink(t, HrefAnchors[i])}
    IN  IF M = {} THEN 0 ELSE CHOOSE i \in M : \A j \in M : j <= i

\* C9 (as claimed): each social field is the handle extracted from the last
\* anchor that matches the platform, or that anchor's raw href when no
\* handle is extracted; each link field is the absolute URL the last
\* matching anchor's href resolves to; a field without a matching anchor is
\* absent.
C9_LastMatchWinsRaw ==
    /\ "socials" \in ran =>
            \A p \in DOMAIN socials :
                IF LastSocialMatch(p) = 0 THEN ~socials[p].some
                ELSE socials[p] = Some(SocialValueRaw(p,
                            HrefAnchors[LastSocialMatch(p)].href.v))
    /\ "links" \in ran =>
            \A t \in DOMAIN links :
                IF LastLinkMatch(t) = 0 THEN ~links[t].some
                ELSE links[t] = Some(UrlJoin(BaseUrl,
                            HrefAnchors[LastLinkMatch(t)].href.v))

\* last match wins, with the values the code derives from the lower-cased
\* href
LastMatchWinsLowered ==
    /\ "socials" \in ran =>
            \A p \in DOMAIN socials :
                IF LastSocialMatch(p) = 0 THEN ~socials[p].some
                ELSE socials[p] = Some(SocialValue(p,
                            HrefAnchors[LastSocialMatch(p)].href.v))
    /\ "links" \in ran =>
            \A t \in DOMAIN links :
                IF LastLinkMatch(t) = 0 THEN ~links[t].some
                ELSE links[t] = Some(FullUrl(
                            HrefAnchors[LastLinkMatch(t)].href.v))

----------------------------------------------------------------------------
(* Properties of the contact extractor                                     *)

\* C11: no contact candidate is requested after one answered 200; the
\* contact data is read from the page of the first candidate that answered
\* 200 and from nothing else, and from the cached homepage exactly when no
\* candidate answered 200, without a second request for the homepage.
C11_ContactFromFirst200OrHomepage ==
    /\ pc = "contact" => ~contactSrc.some
    /\ "contact" \in ran =>
          /\ homeFetches = 1
          /\ IF contactSrc.some
             THEN /\ contactFrom = "page"
                  /\ contact = ContactOf(contactSrc.v)
             ELSE /\ contactFrom = "homepage"
                  /\ contact = ContactOf(soup.v)

\* the second candidate answers 200 with a page without contact data, on a
\* store whose homepage has some
C11_Witness ==
    /\ pc = "about"
    /\ lastUrl = UrlJoin(BaseUrl, contact_paths[2])
    /\ contactSrc = Some([anchors |-> << >>, text |-> << >>])
    /\ ContactOf(soup.v) # NoContact
    /\ contact = NoContact

----------------------------------------------------------------------------
(* Properties of the request boundary                                      *)

\* C12: the answer of POST /insights is 200 with the document exactly when
\* the run returned one (all extractors run), 401 exactly for
\* WebsiteNotFoundException, 400 exactly for InvalidShopifyStoreError and 500
\* exactly for any other exception; an answer other than 200 carries no
\* document.
C12_OneResponseClassPerOutcome ==
    http_response.some =>
        LET code == http_response.v.status_code
            body == http_response.v.body
        IN  /\ Surfaced
            /\ code \in {200, 400, 401, 500}
            /\ code = 200 <=> result = "document"
            /\ code = 401 <=> result = "WebsiteNotFoundException"
            /\ code = 400 <=> result = "InvalidShopifyStoreError"
            /\ code = 500 <=> result \in Failures \
                    {"WebsiteNotFoundException", "InvalidShopifyStoreError"}
            /\ code = 200 =>
                    /\ body = brand_context
                    /\ body.some
                    /\ Extractors \subseteq ran
            /\ code # 200 => ~body.some

\* a homepage request that times out is answered with 500
C12_Witness ==
    /\ http_response.some
    /\ http_response.v.status_code = 500
    /\ result = "TimeoutError"
    /\ nFetch = 1

----------------------------------------------------------------------------
(* Properties of the URL Normalizer                                        *)

\* the URL s ends with a path separator
EndsWithSlash(s) == s # << >> /\ s[Len(s)] = "/"

\* C13: the normalized URL starts with http:// or https://, the one of the
\* input if it has one and https:// otherwise; it does not end with a
\* slash; "shop.com/" gives "https://shop.com"; and normalizing the
\* normalized URL gives it back.
C13_NormalizedSchemedUnslashedIdempotent ==
    (pc = "constructed" /\ normalized.some) =>
        LET out == normalized.v
        IN  /\ out # << >>
            /\ Head(out) = IF website_url # << >>
                                /\ Head(website_url) \in UrlPrefixes
                            THEN Head(website_url) ELSE "https://"
            /\ ~EndsWithSlash(out)
            /\ website_url = << "shop.com", "/" >>
                    => out = << "https://", "shop.com" >>
            /\ NormalizeUrl(out) = out

----------------------------------------------------------------------------
(* Properties of the homepage cache                                        *)

\* the extractors that read the homepage
HomeReaders == {"hero_products", "socials", "contact", "links"}

\* C14: the homepage URL is requested once, by the platform check, and by no
\* request after it; the hero products, the socials, the links and the
\* contact data of the fallback are extracted from the homepage the
\* platform check parsed.
C14_HomepageFetchedOnce ==
    /\ homeFetches = IF pc = "start" THEN 0 ELSE 1
    /\ nFetch > 1 => lastUrl # BaseUrl
    /\ ran \cap HomeReaders # {} => soup.some
    /\ "hero_products" \in ran =>
            hero_products = FetchHeroProductsOf(soup.v, products)
    /\ "socials" \in ran => socials = FetchSocialHandlesOf(soup.v)
    /\ ("contact" \in ran /\ contactFrom = "homepage") =>
            contact = ContactOf(soup.v)
    /\ "links" \in ran => links = FetchImportantLinksOf(soup.v)

\* a document whose four homepage readers, the contact fallback included,
\* have worked on a homepage with anchors
C14_Witness ==
    /\ result = "document"
    /\ HomeReaders \subseteq ran
    /\ contactFrom = "homepage"
    /\ soup = Some(RichDom)
    /\ nFetch > 1
    /\ homeFetches = 1

----------------------------------------------------------------------------
(* Termination of the run                                                  *)

CandidateLoops == {"products", "policies", "faqs", "contact", "about"}

\* the candidates of the loop in progress
Candidates ==
    CASE pc = "products" -> product_endpoints
      [] pc = "contact"  -> contact_paths
      [] OTHER           -> CurrentPaths

\* no candidate list names a candidate twice
NoRepeatedCandidate ==
    \A list \in {product_endpoints, faq_paths, contact_paths, about_paths}
                \cup {policy_paths[policy_types[i]] :
                        i \in 1..Len(policy_types)} :
        \A i, j \in 1..Len(list) : list[i] = list[j] => i = j

\* what one step of the run does: it issues at most one request; inside a
\* candidate loop it requests the candidate the loop stands at, and then
\* moves on to the next candidate unless it leaves the field
RunStep ==
    /\ nFetch' \in {nFetch, nFetch + 1}
    /\ pc \in CandidateLoops =>
            /\ nFetch' = nFetch + 1
            /\ lastUrl' = UrlJoin(BaseUrl,
                    Candidates[IF pc = "products" THEN ep ELSE path])
            /\ (pc' = pc /\ ptype' = ptype) =>
                    IF pc = "products" THEN ep' = ep + 1
                    ELSE path' = path + 1

\* C15: a run issues at most 29 requests, requests the candidates of a
\* field one after the other without going back to one, and, every fetch
\* returning or raising, ends released with a document or a failure.
C15_TerminatesWithin29Fetches ==
    /\ [](nFetch <= 29)
    /\ [](NoRepeatedCandidate)
    /\ [][RunStep]_vars
    /\ <>(pc = "released" /\ Surfaced /\ session = "none")

\* the run in which every candidate fails, released with its document
C15_Witness ==
    /\ pc = "released"
    /\ result = "document"
    /\ nFetch = 29
    /\ session = "none"

----------------------------------------------------------------------------
(* Properties of the catalog                                               *)

\* what the conversion loop makes of the document of one feed alone
ProductsOfFeed(feed) == ConvertAll(feed.products, << >>).products

\* C16: the products of the run are those of the document of one feed, in
\* its order, or none; products of the two feeds are never combined.
C16_ProductsFromOneFeed ==
    "products" \in ran =>
        \/ products = << >>
        \/ \E feed \in Feeds : products = ProductsOfFeed(feed)

====
